---------------------------- MODULE Spec2Model ----------------------------
(***************************************************************************)
(* The physics/control kernel of the asymmetric quad-rotor study:          *)
(*   NonSymmetricQuadrotor  (drone/studies/simulation/study.py)            *)
(*   PIDController, the module-level vehicle and omega_func                *)
(*                          (drone/studies/design/study.py)                *)
(*                                                                         *)
(* Numbers.  The code computes in IEEE doubles.  The model computes in     *)
(* exact rationals <<n, d>> (d > 0, lowest terms) extended with the three  *)
(* non-finite doubles: <<1,0>> = +inf, <<-1,0>> = -inf, <<0,0>> = NaN, so  *)
(* that a division by zero yields inf/NaN and goes on, as numpy's does.    *)
(* Rotor speeds are counted in 10^3 rad/s (kf = 3e-6 N s^2 reads 3, km =   *)
(* 1e-7 reads 1/10); every other quantity is in SI units.  A rotor speed   *)
(* is kept as a signed square root [sgn, sq] = sgn * sqrt(sq), so that     *)
(* np.sqrt and the later omega**2 are both exact.                          *)
(***************************************************************************)
EXTENDS Integers, Sequences, FiniteSets, TLC

--------------------------------------------------------------------------
(* Extended rational arithmetic (the float operators of numpy).            *)

Abs(n) == IF n < 0 THEN -n ELSE n

Sgn(n) == IF n < 0 THEN -1 ELSE IF n > 0 THEN 1 ELSE 0

RECURSIVE GCD(_, _)
GCD(a, b) == IF b = 0 THEN a ELSE GCD(b, a % b)

\* gcd of the magnitudes, 1 for gcd(0, 0)
Gcd1(a, b) == LET g == GCD(Abs(a), Abs(b)) IN IF g = 0 THEN 1 ELSE g

Norm(n, d) ==
    IF d = 0 THEN <<Sgn(n), 0>>
    ELSE LET g == Gcd1(n, d)
             s == Sgn(d)
         IN  <<s * (n \div g), s * (d \div g)>>

Q(n, d) == Norm(n, d)
Zero == <<0, 1>>
One == <<1, 1>>
NaN == <<0, 0>>

IsFinite(a) == a[2] # 0
IsNaN(a) == a = NaN
IsNeg(a) == a[1] < 0
IsPos(a) == a[1] > 0

RNeg(a) == <<-a[1], a[2]>>

RMul(a, b) ==
    LET g1 == Gcd1(a[1], b[2])
        g2 == Gcd1(b[1], a[2])
    IN  Norm((a[1] \div g1) * (b[1] \div g2), (a[2] \div g2) * (b[2] \div g1))

RAdd(a, b) ==
    IF a[2] = 0 /\ b[2] = 0 THEN (IF a = b THEN a ELSE NaN)
    ELSE IF a[2] = 0 THEN a
    ELSE IF b[2] = 0 THEN b
    ELSE LET g == Gcd1(a[2], b[2])
         IN  Norm(a[1] * (b[2] \div g) + b[1] * (a[2] \div g),
                  (a[2] \div g) * b[2])

RSub(a, b) == RAdd(a, RNeg(b))

\* 1/a: 1/0 = inf, 1/inf = 0, 1/NaN = NaN
RInv(a) == Norm(a[2], a[1])

RDiv(a, b) == RMul(a, RInv(b))

--------------------------------------------------------------------------
(* Vectors and matrices: tuples of rationals, tuples of rows.              *)

\* a function on 1..n as a tuple of evaluated elements
Tup(f) == f \o << >>

VAdd(u, v) == Tup([i \in 1..Len(u) |-> RAdd(u[i], v[i])])
VSub(u, v) == Tup([i \in 1..Len(u) |-> RSub(u[i], v[i])])
VMul(u, v) == Tup([i \in 1..Len(u) |-> RMul(u[i], v[i])])
VNeg(u) == Tup([i \in 1..Len(u) |-> RNeg(u[i])])
VScale(c, u) == Tup([i \in 1..Len(u) |-> RMul(c, u[i])])

RECURSIVE RSum(_)
RSum(s) == IF Len(s) = 0 THEN Zero ELSE RAdd(s[1], RSum(Tail(s)))

Dot(u, v) == RSum(VMul(u, v))

MatVec(M, v) == Tup([i \in 1..Len(M) |-> Dot(M[i], v)])
MAdd(A, B) == Tup([i \in 1..Len(A) |-> VAdd(A[i], B[i])])
MScale(c, A) == Tup([i \in 1..Len(A) |-> VScale(c, A[i])])
Transpose(M) == Tup([j \in 1..Len(M[1]) |-> Tup([i \in 1..Len(M) |-> M[i][j]])])
Outer(u, v) == Tup([i \in 1..Len(u) |-> Tup([j \in 1..Len(v) |-> RMul(u[i], v[j])])])
Eye3 ==
    << <<<<1, 1>>, <<0, 1>>, <<0, 1>>>>,
       <<<<0, 1>>, <<1, 1>>, <<0, 1>>>>,
       <<<<0, 1>>, <<0, 1>>, <<1, 1>>>> >>
Zeros3 == <<Zero, Zero, Zero>>
Zeros33 == <<Zeros3, Zeros3, Zeros3>>
Diag3(a, b, c) == <<<<a, Zero, Zero>>, <<Zero, b, Zero>>, <<Zero, Zero, c>>>>

Cross(u, v) ==
    << RSub(RMul(u[2], v[3]), RMul(u[3], v[2])),
       RSub(RMul(u[3], v[1]), RMul(u[1], v[3])),
       RSub(RMul(u[1], v[2]), RMul(u[2], v[1])) >>

\* Gauss-Jordan elimination on the augmented matrix A = [M | Id], from column
\* k on, as the LU solve behind np.linalg.inv; << >> when no pivot is left
RECURSIVE Eliminate(_, _)
Eliminate(A, k) ==
    LET n == Len(A)
    IN  IF k > n THEN A
        ELSE LET rows == {r \in k..n : A[r][k] # Zero}
             IN  IF rows = {} THEN << >>
                 ELSE LET p == CHOOSE r \in rows : \A r2 \in rows : r <= r2
                          piv == VScale(RInv(A[p][k]), A[p])
                          swapped == [A EXCEPT ![p] = A[k], ![k] = piv]
                          cleared == Tup([r \in 1..n |->
                                        IF r = k THEN piv
                                        ELSE VSub(swapped[r],
                                                  VScale(swapped[r][k], piv))])
                      IN  Eliminate(cleared, k + 1)

Augmented(M) ==
    LET n == Len(M)
    IN  Tup([i \in 1..n |-> M[i] \o [j \in 1..n |-> IF i = j THEN One ELSE Zero]])

Singular(M) == Eliminate(Augmented(M), 1) = << >>

\* the inverse of a non-singular matrix
Inverse(M) ==
    LET n == Len(M)
        E == Eliminate(Augmented(M), 1)
    IN  Tup([i \in 1..n |-> SubSeq(E[i], n + 1, 2 * n)])

--------------------------------------------------------------------------
(* Rotor speeds: sgn * sqrt(sq).                                           *)

Root(sgn, sq) == [sgn |-> sgn, sq |-> sq]

\* a rotor speed given as a rational number w
Speed(w) == Root(Sgn(w[1]), RMul(w, w))

\* np.sqrt: NaN for a negative or NaN argument
Sqrt(q) == IF IsNaN(q) \/ IsNeg(q) THEN Root(0, NaN) ELSE Root(Sgn(q[1]), q)

\* omega**2
Square(r) == r.sq

RootNonNeg(r) == r.sgn >= 0 /\ ~IsNaN(r.sq) /\ ~IsNeg(r.sq)

--------------------------------------------------------------------------
(* np.cos / np.sin.  States carry their Euler angles as numbers; the model *)
(* evaluates the trigonometric functions on a grid of angles, rounded to   *)
(* two digits.  31/20 rad is 88.8 degrees, the near-gimbal-lock pitch.  No *)
(* double is an odd multiple of pi/2, so np.cos never returns 0.           *)

AngleTable ==
    << <<<<0, 1>>, One, Zero>>,
       <<<<1, 100>>, One, <<1, 100>>>>,
       <<<<-1, 100>>, One, <<-1, 100>>>>,
       <<<<16, 25>>, <<4, 5>>, <<3, 5>>>>,
       <<<<-16, 25>>, <<4, 5>>, <<-3, 5>>>>,
       <<<<31, 20>>, <<1, 50>>, One>>,
       <<<<-31, 20>>, <<1, 50>>, <<-1, 1>>>> >>

NearGimbal == {<<31, 20>>, <<-31, 20>>}

TrigRow(a) == CHOOSE i \in 1..Len(AngleTable) : AngleTable[i][1] = a
Cos(a) == IF IsFinite(a) THEN AngleTable[TrigRow(a)][2] ELSE NaN
Sin(a) == IF IsFinite(a) THEN AngleTable[TrigRow(a)][3] ELSE NaN
Tan(a) == RDiv(Sin(a), Cos(a))

--------------------------------------------------------------------------
(* The module-level configuration of design/study.py.                      *)

Gravity == <<981, 100>>

masses_positions ==
    << <<One, Zeros3>>,
       <<<<1, 10>>, <<<<3, 20>>, Zero, Zero>>>>,
       <<<<1, 10>>, <<<<-3, 20>>, Zero, Zero>>>>,
       <<<<1, 10>>, <<Zero, <<1, 5>>, Zero>>>>,
       <<<<1, 10>>, <<Zero, <<-1, 5>>, Zero>>>> >>

rotor_positions ==
    << <<<<3, 20>>, Zero, Zero>>,
       <<<<-3, 20>>, Zero, Zero>>,
       <<Zero, <<1, 5>>, Zero>>,
       <<Zero, <<-1, 5>>, Zero>> >>

kf == <<<<3, 1>>, <<31, 10>>, <<29, 10>>, <<3, 1>>>>
km == <<<<1, 10>>, <<21, 200>>, <<19, 200>>, <<1, 10>>>>
rotor_dirs == <<<<1, 1>>, <<-1, 1>>, <<1, 1>>, <<-1, 1>>>>
I_body == Diag3(<<1, 200>>, <<1, 200>>, <<9, 1000>>)
Cd == Diag3(<<1, 10>>, <<1, 10>>, <<1, 5>>)
Ctau == Diag3(<<1, 100>>, <<1, 100>>, <<1, 50>>)

\* the arguments of NonSymmetricQuadrotor(...) at design/study.py:101
DesignArgs ==
    [rotor_positions |-> rotor_positions, kf |-> kf, km |-> km,
     masses_positions |-> masses_positions, I_body |-> I_body,
     Cd |-> Cd, Ctau |-> Ctau, rotor_dirs |-> rotor_dirs]

--------------------------------------------------------------------------
(* NonSymmetricQuadrotor.compute_mass_properties                           *)

\* the summand with the products of inertia entered above the diagonal only
InertiaTermUpper(m_i, r_i) ==
    LET upper == Tup([i \in 1..3 |->
                    Tup([j \in 1..3 |-> IF j < i THEN Zero ELSE RMul(r_i[i], r_i[j])])])
    IN  MScale(m_i, MAdd(MScale(Dot(r_i, r_i), Eye3), MScale(<<-1, 1>>, upper)))

\* one summand of the inertia loop: m_i * ((r_i . r_i) * eye(3) - outer(r_i, r_i))
InertiaTerm(m_i, r_i) ==
    MScale(m_i, MAdd(MScale(Dot(r_i, r_i), Eye3), MScale(<<-1, 1>>, Outer(r_i, r_i))))

RECURSIVE InertiaSum(_, _)
InertiaSum(mp, com) ==
    IF Len(mp) = 0 THEN Zeros33
    ELSE MAdd(InertiaTerm(mp[1][1], VSub(mp[1][2], com)), InertiaSum(Tail(mp), com))

TotalMass(mp) == RSum([i \in 1..Len(mp) |-> mp[i][1]])

\* the weighted sum taken over all elements but the last
CenterOfMassSkipLast(mp) ==
    IF Len(mp) = 0 THEN << >>
    ELSE Tup([k \in 1..3 |->
                RDiv(RSum([i \in 1..(Len(mp) - 1) |-> RMul(mp[i][1], mp[i][2][k])]),
                     TotalMass(mp))])

\* np.sum(masses[:,None] * positions, axis=0) / total_mass; an empty list
\* gives arrays of shape (0,), and CoM of shape (0,)
CenterOfMass(mp) ==
    IF Len(mp) = 0 THEN << >>
    ELSE Tup([k \in 1..3 |->
                RDiv(RSum([i \in 1..Len(mp) |-> RMul(mp[i][1], mp[i][2][k])]),
                     TotalMass(mp))])

\* the fields compute_mass_properties sets, and how it ends: subtracting a
\* CoM of shape (0,) from the (4,3) rotor positions cannot be broadcast
ComputeMassProperties(args) ==
    LET mp == args.masses_positions
        com == CenterOfMass(mp)
        I == MAdd(InertiaSum(mp, com), args.I_body)
    IN  IF Len(mp) = 0
        THEN [status |-> "ValueError", m |-> TotalMass(mp), CoM |-> com,
              I |-> I, r_pos_rel |-> << >>]
        ELSE [status |-> "ok", m |-> TotalMass(mp), CoM |-> com, I |-> I,
              r_pos_rel |-> Tup([i \in 1..4 |-> VSub(args.rotor_positions[i], com)])]

\* an argument left at its default None
None == << >>

\* NonSymmetricQuadrotor.__init__: Cd, Ctau default to zeros((3,3))
NewQuadrotor(args) ==
    LET mp == ComputeMassProperties(args)
    IN  [status |-> mp.status,
         r_pos |-> args.rotor_positions, kf |-> args.kf, km |-> args.km,
         masses_positions |-> args.masses_positions, I_body |-> args.I_body,
         Cd |-> IF args.Cd = None THEN Zeros33 ELSE args.Cd,
         Ctau |-> IF args.Ctau = None THEN Zeros33 ELSE args.Ctau,
         rotor_dirs |-> args.rotor_dirs,
         m |-> mp.m, CoM |-> mp.CoM, I |-> mp.I, r_pos_rel |-> mp.r_pos_rel]

--------------------------------------------------------------------------
(* Attitude kinematics                                                     *)

rotation_matrix(phi, theta, psi) ==
    LET cphi == Cos(phi)   sphi == Sin(phi)
        cth == Cos(theta)  sth == Sin(theta)
        cpsi == Cos(psi)   spsi == Sin(psi)
    IN  << << RMul(cth, cpsi),
              RSub(RMul(RMul(sphi, sth), cpsi), RMul(cphi, spsi)),
              RAdd(RMul(RMul(cphi, sth), cpsi), RMul(sphi, spsi)) >>,
           << RMul(cth, spsi),
              RAdd(RMul(RMul(sphi, sth), spsi), RMul(cphi, cpsi)),
              RSub(RMul(RMul(cphi, sth), spsi), RMul(sphi, cpsi)) >>,
           << RNeg(sth), RMul(sphi, cth), RMul(cphi, cth) >> >>

\* no branch on theta: the quotients by cos(theta) are taken as they come
W_matrix(phi, theta) ==
    LET cphi == Cos(phi)   sphi == Sin(phi)
        cth == Cos(theta)  tth == Tan(theta)
    IN  << << One, RMul(sphi, tth), RMul(cphi, tth) >>,
           << Zero, cphi, RNeg(sphi) >>,
           << Zero, RDiv(sphi, cth), RDiv(cphi, cth) >> >>

--------------------------------------------------------------------------
(* NonSymmetricQuadrotor.dynamics                                          *)

\* F_i = kf * omega**2
RotorForces(q, omega) == Tup([i \in 1..4 |-> RMul(q.kf[i], Square(omega[i]))])

\* tau_psi_i = rotor_dirs * km * omega**2
RotorYawTorques(q, omega) ==
    Tup([i \in 1..4 |-> RMul(RMul(q.rotor_dirs[i], q.km[i]), Square(omega[i]))])

\* F_total[2] = np.sum(F_i)
NetThrust(q, omega) == RSum(RotorForces(q, omega))

RECURSIVE TorqueSum(_, _, _, _)
TorqueSum(q, F, tz, i) ==
    IF i = 0 THEN Zeros3
    ELSE VAdd(TorqueSum(q, F, tz, i - 1),
              VAdd(Cross(q.r_pos_rel[i], <<Zero, Zero, F[i]>>),
                   <<Zero, Zero, tz[i]>>))

\* the loop over the four rotors: cross(r_i, F_vec) + [0, 0, tau_psi_i]
NetTorque(q, omega) ==
    TorqueSum(q, RotorForces(q, omega), RotorYawTorques(q, omega), 4)

\* the acceleration with the weight taken as [0,0,-9.81], not m*[0,0,-9.81]
AccelerationUnweighted(q, x, omega) ==
    LET R == rotation_matrix(x[7], x[8], x[9])
        F_total == <<Zero, Zero, NetThrust(q, omega)>>
        F_drag == VNeg(MatVec(q.Cd, SubSeq(x, 4, 6)))
    IN  VScale(RInv(q.m),
               VAdd(VAdd(<<Zero, Zero, RNeg(Gravity)>>, MatVec(R, F_total)), F_drag))

\* a = (1/m) * (m*[0,0,-9.81] + R @ F_total + F_drag)
Acceleration(q, x, omega) ==
    LET R == rotation_matrix(x[7], x[8], x[9])
        F_total == <<Zero, Zero, NetThrust(q, omega)>>
        F_drag == VNeg(MatVec(q.Cd, SubSeq(x, 4, 6)))
    IN  VScale(RInv(q.m),
               VAdd(VAdd(VScale(q.m, <<Zero, Zero, RNeg(Gravity)>>),
                         MatVec(R, F_total)), F_drag))

\* np.linalg.inv raises LinAlgError on a singular matrix
InvertibleInertia(q) == ~Singular(q.I)

\* omega_dot = inv(I) @ (tau_total - cross(omega_body, I @ omega_body) + tau_drag)
AngularAcceleration(q, x, omega) ==
    LET omega_body == SubSeq(x, 10, 12)
        tau_drag == VNeg(MatVec(q.Ctau, omega_body))
    IN  MatVec(Inverse(q.I),
               VAdd(VSub(NetTorque(q, omega),
                         Cross(omega_body, MatVec(q.I, omega_body))),
                    tau_drag))

\* eta_dot = W @ omega_body
EulerRates(x) == MatVec(W_matrix(x[7], x[8]), SubSeq(x, 10, 12))

\* how the call ends: with the derivative, or with the exception of inv
dynamics(q, t, x, omega) ==
    IF ~InvertibleInertia(q)
    THEN [outcome |-> "LinAlgError", dxdt |-> << >>]
    ELSE [outcome |-> "ok",
          dxdt |-> SubSeq(x, 4, 6) \o Acceleration(q, x, omega)
                   \o EulerRates(x) \o AngularAcceleration(q, x, omega)]

--------------------------------------------------------------------------
(* PIDController                                                           *)

\* PIDController.__init__
NewPID ==
    [kp_pos |-> <<<<1, 1>>, <<1, 1>>, <<15, 1>>>>, kd_pos |-> <<<<2, 1>>, <<2, 1>>, <<7, 1>>>>,
     kp_ang |-> <<<<200, 1>>, <<200, 1>>, <<100, 1>>>>, kd_ang |-> <<<<20, 1>>, <<20, 1>>, <<10, 1>>>>,
     integral_error_pos |-> Zeros3, integral_error_ang |-> Zeros3,
     last_error_pos |-> None, last_error_ang |-> None]

\* thrust_des = kp_pos*error_pos + kd_pos*error_vel + [0, 0, 9.81]
ThrustDes(c, x, setpoint) ==
    LET error_pos == VSub(SubSeq(setpoint, 1, 3), SubSeq(x, 1, 3))
        error_vel == VSub(SubSeq(setpoint, 4, 6), SubSeq(x, 4, 6))
        u1 == VAdd(VMul(c.kp_pos, error_pos), VMul(c.kd_pos, error_vel))
    IN  VAdd(u1, <<Zero, Zero, Gravity>>)

\* tau_des = kp_ang*(0 - angles) + kd_ang*(-omega)
TauDes(c, x) ==
    LET error_ang == VSub(Zeros3, SubSeq(x, 7, 9))
        error_omega == VNeg(SubSeq(x, 10, 12))
    IN  VAdd(VMul(c.kp_ang, error_ang), VMul(c.kd_ang, error_omega))

\* the allocation matrix with the pitch row's sign lost: kf*Lx
AllocationMatrixPitchSign(q) ==
    LET Lx == Tup([i \in 1..4 |-> q.r_pos_rel[i][1]])
        Ly == Tup([i \in 1..4 |-> q.r_pos_rel[i][2]])
    IN  << q.kf, VMul(q.kf, Ly), VMul(q.kf, Lx), VMul(q.km, q.rotor_dirs) >>

\* rows kf, kf*Ly, -kf*Lx, km*rotor_dirs
AllocationMatrix(q) ==
    LET Lx == Tup([i \in 1..4 |-> q.r_pos_rel[i][1]])
        Ly == Tup([i \in 1..4 |-> q.r_pos_rel[i][2]])
    IN  << q.kf, VMul(q.kf, Ly), VMul(VNeg(q.kf), Lx), VMul(q.km, q.rotor_dirs) >>

\* force_moments with the first component of thrust_des for the third
ForceMomentsFirstAxis(c, q, x, setpoint) ==
    <<RMul(ThrustDes(c, x, setpoint)[1], q.m)>> \o TauDes(c, x)

\* force_moments = [thrust_des[2]*m, tau_des[0], tau_des[1], tau_des[2]]
ForceMoments(c, q, x, setpoint) ==
    <<RMul(ThrustDes(c, x, setpoint)[3], q.m)>> \o TauDes(c, x)

\* np.linalg.pinv(B): the inverse, for a B of full rank
Pinv(B) == Inverse(B)

\* the squared speeds passed on as they are
ClipNothing(v) == v

\* np.clip(v, 0, None): NaN stays NaN
Clip(v) == Tup([i \in 1..Len(v) |-> IF IsNeg(v[i]) THEN Zero ELSE v[i]])

\* omega_squared = pinv(B) @ force_moments, before the clip
OmegaSquared(q, force_moments) == MatVec(Pinv(AllocationMatrix(q)), force_moments)

\* the clip and the square root: omega = sqrt(clip(omega_squared, 0, None))
Allocate(q, force_moments) ==
    LET omega_squared == Clip(OmegaSquared(q, force_moments))
    IN  Tup([i \in 1..4 |-> Sqrt(omega_squared[i])])

\* PIDController.control
control(c, q, t, x, setpoint) == Allocate(q, ForceMoments(c, q, x, setpoint))

\* a controller that keeps the position error of the call in last_error_pos
AfterControlRemembering(c, t, x, setpoint) ==
    [c EXCEPT !.last_error_pos = VSub(SubSeq(setpoint, 1, 3), SubSeq(x, 1, 3))]

\* the controller after control(t, x, setpoint): the method assigns to no
\* field of self, the gains are read and the error fields are never touched
AfterControl(c, t, x, setpoint) == c

\* the vehicles whose allocation matrix is finite and of full rank
FullRankAllocation(q) ==
    /\ q.status = "ok"
    /\ \A i, j \in 1..4 : IsFinite(AllocationMatrix(q)[i][j])
    /\ ~Singular(AllocationMatrix(q))

--------------------------------------------------------------------------
(* Inputs                                                                  *)

MaxSteps == 3

\* the step of the integrator, in seconds
Step == <<1, 2>>

MaxCalls == 1

\* a layout symmetric about the origin, off the axes, with unequal pairs
MassListSymmetric ==
    << <<<<1, 2>>, <<<<1, 10>>, <<1, 5>>, <<-1, 10>>>>>>,
       <<<<2, 1>>, <<Zero, <<1, 10>>, Zero>>>>,
       <<One, Zeros3>>,
       <<<<2, 1>>, <<Zero, <<-1, 10>>, Zero>>>>,
       <<<<1, 2>>, <<<<-1, 10>>, <<-1, 5>>, <<1, 10>>>>>> >>

MassListOff ==
    << <<One, <<<<1, 5>>, <<1, 10>>, Zero>>>>,
       <<One, <<Zero, <<-1, 10>>, <<1, 5>>>>>> >>

\* mass lists: the design's, an empty one, totals of zero and below, a single
\* point, and lists off the axes
MassLists ==
    { masses_positions,
      << >>,
      << <<Zero, Zeros3>> >>,
      << <<One, <<<<1, 10>>, Zero, Zero>>>>, <<<<-1, 1>>, <<Zero, <<1, 10>>, Zero>>>> >>,
      << <<<<-1, 1>>, <<<<1, 10>>, Zero, Zero>>>> >>,
      << <<One, Zeros3>> >>,
      MassListOff,
      MassListSymmetric,
      << <<<<2, 1>>, <<<<1, 10>>, <<1, 5>>, Zero>>>>,
         <<<<-1, 1>>, <<<<-1, 10>>, Zero, <<1, 10>>>>>> >> }

\* a body inertia tensor with products of inertia (symmetric, as every
\* inertia tensor)
CoupledInertia ==
    << <<<<1, 200>>, <<1, 1000>>, Zero>>,
       <<<<1, 1000>>, <<1, 200>>, <<-1, 500>>>>,
       <<Zero, <<-1, 500>>, <<9, 1000>>>> >>

WithMasses(mp, ib, cd, ctau) ==
    [DesignArgs EXCEPT !.masses_positions = mp, !.I_body = ib,
                       !.Cd = cd, !.Ctau = ctau]

\* the constructor's arguments
QuadArgs ==
    { WithMasses(mp, I_body, Cd, Ctau) : mp \in MassLists }
    \cup { WithMasses(masses_positions, ib, None, None) : ib \in {I_body, CoupledInertia} }
    \cup { WithMasses(mp, Zeros33, None, None) :
             mp \in { << <<One, Zeros3>> >>, MassListOff } }
    \cup { WithMasses(MassListOff, CoupledInertia, Cd, Ctau),
            WithMasses(<< <<Zero, Zeros3>> >>, I_body, None, None) }

St(p, v, ang, w) == p \o v \o ang \o w

Rest3 == Zeros3

\* states handed to control
ControlStates ==
    { St(Zeros3, Rest3, Zeros3, Rest3),
      St(<<Zero, Zero, One>>, Rest3, Zeros3, Rest3),
      St(<<One, <<-1, 2>>, One>>, <<<<1, 2>>, One, Zero>>, Zeros3, Rest3),
      St(<<Zero, Zero, <<2, 1>>>>, <<Zero, Zero, <<-1, 2>>>>, Zeros3, Rest3),
      St(<<Zero, Zero, One>>, Rest3, <<<<1, 100>>, <<-1, 100>>, Zero>>, Rest3),
      St(<<<<2, 1>>, Zero, Zero>>, <<Zero, Zero, One>>,
         <<Zero, <<1, 100>>, <<1, 100>>>>, <<<<1, 10>>, Zero, <<-1, 10>>>>) }

Setpoints ==
    { <<<<0, 1>>, <<0, 1>>, <<1, 1>>, <<0, 1>>, <<0, 1>>, <<0, 1>>>>,
      <<<<1, 1>>, <<-2, 1>>, <<0, 1>>, <<0, 1>>, <<1, 1>>, <<-1, 1>>>> }

\* horizontal parts (x, y, v_x, v_y) of a state or of a setpoint
Horizontal ==
    { <<Zero, Zero, Zero, Zero>>,
      <<One, <<-1, 2>>, <<3, 1>>, Zero>>,
      <<<<-5, 1>>, <<2, 1>>, <<-1, 1>>, <<1, 4>>>> }

\* the state or setpoint v with the horizontal part h
WithHorizontal(v, h) == [v EXCEPT ![1] = h[1], ![2] = h[2], ![4] = h[3], ![5] = h[4]]

\* states handed to dynamics
DynamicsStates ==
    { St(Zeros3, Rest3, Zeros3, Rest3),
      St(Zeros3, Rest3, <<<<16, 25>>, <<-16, 25>>, <<16, 25>>>>, Rest3),
      St(Zeros3, Rest3, <<Zero, <<31, 20>>, Zero>>, Rest3),
      St(Zeros3, <<One, <<-1, 2>>, <<2, 1>>>>, <<<<16, 25>>, Zero, <<-16, 25>>>>,
         <<One, <<1, 2>>, <<-1, 1>>>>),
      St(Zeros3, <<Zero, Zero, <<-1, 1>>>>, <<<<16, 25>>, <<-31, 20>>, <<1, 100>>>>,
         <<Zero, One, <<1, 2>>>>) }

RotorCommands ==
    { Tup([i \in 1..4 |-> Speed(Q(s[i], 1))]) :
        s \in { <<0, 0, 0, 0>>, <<1, 1, 1, 1>>, <<2, 1, 0, 3>>,
                <<-1, 1, 1, 1>>, <<-2, -1, 0, -3>> } }

\* what simulate is given: the rotor-speed function and the initial state
ZeroCommand == Tup([i \in 1..4 |-> Speed(Zero)])

SimStarts ==
    { St(<<Zero, Zero, z>>, Rest3, ang, Rest3) :
        z \in {Zero, <<10, 1>>},
        ang \in {Zeros3, <<<<16, 25>>, <<-16, 25>>, <<16, 25>>>>, <<Zero, <<31, 20>>, Zero>>} }

\* an initial state at which the hover feedback asks for no thrust
SimStartsPID == { St(<<Zero, Zero, <<827, 500>>>>, Rest3, Zeros3, Rest3) }

--------------------------------------------------------------------------
(* The program                                                             *)

VARIABLES
    quad,   \* the NonSymmetricQuadrotor instance; status "none" before it is built
    pid,    \* the PIDController instance
    call,   \* the latest call of control or dynamics since simulate was entered
    ncalls, \* the direct calls made so far
    sim     \* the activation of simulate

vars == <<quad, pid, call, ncalls, sim>>

NoQuad == [status |-> "none"]
NoCall == [op |-> "none"]
Idle == [pc |-> "idle"]

Init ==
    /\ quad = NoQuad
    /\ pid = NewPID
    /\ call = NoCall
    /\ ncalls = 0
    /\ sim = Idle

\* quad = NonSymmetricQuadrotor(...); an exception leaves no instance behind,
\* kept here with its status
Construct ==
    /\ quad.status = "none"
    /\ \E args \in QuadArgs : quad' = NewQuadrotor(args)
    /\ UNCHANGED <<pid, call, ncalls, sim>>

\* pid.control(t, x, setpoint), called directly
Control ==
    /\ sim.pc = "idle"
    /\ ncalls < MaxCalls
    /\ ncalls' = ncalls + 1
    /\ FullRankAllocation(quad)
    /\ \E x \in ControlStates, setpoint \in Setpoints :
          /\ call' = [op |-> "control", t |-> Zero, x |-> x, setpoint |-> setpoint,
                      omega |-> control(pid, quad, Zero, x, setpoint)]
          /\ pid' = AfterControl(pid, Zero, x, setpoint)
    /\ UNCHANGED <<quad, sim>>

DynamicsCall(t, x, omega) ==
    LET r == dynamics(quad, t, x, omega)
    IN  [op |-> "dynamics", t |-> t, x |-> x, omega |-> omega,
         outcome |-> r.outcome, dxdt |-> r.dxdt]

\* quad.dynamics(t, x, omega), called directly
Dynamics ==
    /\ sim.pc = "idle"
    /\ ncalls < MaxCalls
    /\ ncalls' = ncalls + 1
    /\ quad.status = "ok"
    /\ \E x \in DynamicsStates, omega \in RotorCommands :
          call' = DynamicsCall(Zero, x, omega)
    /\ UNCHANGED <<quad, pid, sim>>

\* quad of design/study.py, the vehicle omega_func steers: the instance built
\* from the module's own constants
IsDesignQuad(q) ==
    /\ q.status = "ok"
    /\ q.masses_positions = masses_positions /\ q.r_pos = rotor_positions
    /\ q.kf = kf /\ q.km = km /\ q.rotor_dirs = rotor_dirs
    /\ q.I_body = I_body /\ q.Cd = Cd /\ q.Ctau = Ctau

\* omega_func of design/study.py: the hover setpoint is fixed
HoverSetpoint == <<<<0, 1>>, <<0, 1>>, <<1, 1>>, <<0, 1>>, <<0, 1>>, <<0, 1>>>>

omega_func(t, x) == control(pid, quad, t, x, HoverSetpoint)

\* the vehicles with finite mass properties (what the solver does with a
\* derivative of NaN is not modelled)
FiniteQuad(q) ==
    /\ q.status = "ok"
    /\ IsFinite(q.m)
    /\ \A i \in 1..3 : IsFinite(q.CoM[i]) /\ \A j \in 1..3 : IsFinite(q.I[i][j])

\* a fall without rotors and without drag: its exact rationals stay small, so
\* the run may span several steps; every other run is one step long
FreeOfDrag(q, f) == f = "zero" /\ q.Cd = Zeros33 /\ q.Ctau = Zeros33

\* quad.simulate(omega_func, x0, t_span, t_eval): solve_ivp takes over
SimulateStart ==
    /\ sim.pc = "idle"
    /\ FiniteQuad(quad)
    /\ \E f \in {"zero", "omega_func"}, n \in 1..MaxSteps :
          \E x0 \in (IF f = "zero" THEN SimStarts ELSE SimStartsPID) :
             /\ f = "omega_func" => IsDesignQuad(quad)
             /\ ~FreeOfDrag(quad, f) => n = 1
             /\ sim' = [pc |-> "omega", f |-> f, t |-> Zero, x |-> x0,
                        tf |-> RMul(Q(n, 1), Step), stage |-> 1,
                        te |-> Zero, xe |-> x0, omega |-> << >>, k1 |-> << >>,
                        ts |-> <<Zero>>, ys |-> <<x0>>]
    /\ call' = NoCall
    /\ UNCHANGED <<quad, pid, ncalls>>

\* fun(t, x), first line: omega = omega_func(t, x)
SimOmega ==
    /\ sim.pc = "omega"
    /\ IF sim.f = "zero"
       THEN /\ sim' = [sim EXCEPT !.pc = "dynamics", !.omega = ZeroCommand]
            /\ UNCHANGED <<call, pid>>
       ELSE LET w == omega_func(sim.te, sim.xe)
            IN  /\ sim' = [sim EXCEPT !.pc = "dynamics", !.omega = w]
                /\ call' = [op |-> "control", t |-> sim.te, x |-> sim.xe,
                            setpoint |-> HoverSetpoint, omega |-> w]
                /\ pid' = AfterControl(pid, sim.te, sim.xe, HoverSetpoint)
    /\ UNCHANGED <<quad, ncalls>>

\* the solver's use of the derivative: an explicit two-stage Runge-Kutta
\* step (midpoint rule), exact on the parabola of a constant acceleration
\* as the solver's own scheme is
Advance(s, dxdt) ==
    IF s.stage = 1
    THEN [s EXCEPT !.pc = "omega", !.stage = 2, !.k1 = dxdt,
                   !.te = RAdd(s.t, RMul(<<1, 2>>, Step)),
                   !.xe = VAdd(s.x, VScale(RMul(<<1, 2>>, Step), dxdt))]
    ELSE LET t1 == RAdd(s.t, Step)
             x1 == VAdd(s.x, VScale(Step, dxdt))
         IN  [s EXCEPT !.pc = IF t1 = s.tf THEN "returned" ELSE "omega",
                       !.stage = 1, !.t = t1, !.x = x1, !.te = t1, !.xe = x1,
                       !.ts = Append(s.ts, t1), !.ys = Append(s.ys, x1)]

\* fun calling dynamics with the state the step began at, not the one of
\* the evaluation
SimDynamicsStale ==
    /\ sim.pc = "dynamics"
    /\ LET c == DynamicsCall(sim.t, sim.x, sim.omega)
       IN  /\ call' = c
           /\ sim' = IF c.outcome = "ok" THEN Advance(sim, c.dxdt)
                     ELSE [sim EXCEPT !.pc = "raised"]
    /\ UNCHANGED <<quad, pid, ncalls>>

\* fun(t, x), second line: return self.dynamics(t, x, omega); an exception
\* of dynamics leaves fun, solve_ivp and simulate
SimDynamics ==
    /\ sim.pc = "dynamics"
    /\ LET c == DynamicsCall(sim.te, sim.xe, sim.omega)
       IN  /\ call' = c
           /\ sim' = IF c.outcome = "ok" THEN Advance(sim, c.dxdt)
                     ELSE [sim EXCEPT !.pc = "raised"]
    /\ UNCHANGED <<quad, pid, ncalls>>

Next ==
    \/ Construct
    \/ Control
    \/ Dynamics
    \/ SimulateStart
    \/ SimOmega
    \/ SimDynamics

Spec == Init /\ [][Next]_vars

--------------------------------------------------------------------------
(* Properties                                                              *)

\* C1: every rotor speed that control returns is >= 0: it is the root of a
\* squared speed that the clip has brought to 0 or above, never the root of
\* a negative number
C1_NonNegativeRotorSpeeds ==
    call.op = "control" => \A i \in 1..4 : RootNonNeg(call.omega[i])

\* a call of control whose pinv(B) @ force_moments has a negative entry
C1_ClipActs ==
    /\ call.op = "control"
    /\ \E i \in 1..4 :
          IsNeg(OmegaSquared(quad, ForceMoments(pid, quad, call.x, call.setpoint))[i])

\* C2: at the setpoint, at rest and level, the speeds control returns for
\* the design vehicle give a net thrust sum(kf * omega**2) equal to m * 9.81
C2_HoverThrustBalancesWeight ==
    ( /\ call.op = "control"
      /\ IsDesignQuad(quad)
      /\ call.x = call.setpoint \o Zeros3 \o Zeros3
      /\ SubSeq(call.setpoint, 4, 6) = Zeros3 )
    => NetThrust(quad, call.omega) = RMul(quad.m, Gravity)

\* C3: for a command of non-negative speeds, the thrust and torque dynamics
\* computes are B @ omega**2 for the B of control, and pinv(B), the clip and
\* the root give the command back (B of full rank: every command in range)
C3_AllocationRoundTrip ==
    ( /\ call.op = "dynamics"
      /\ FullRankAllocation(quad)
      /\ \A i \in 1..4 : RootNonNeg(call.omega[i]) )
    => LET wrench == <<NetThrust(quad, call.omega)>> \o NetTorque(quad, call.omega)
           squares == Tup([i \in 1..4 |-> Square(call.omega[i])])
       IN  /\ wrench = MatVec(AllocationMatrix(quad), squares)
           /\ Allocate(quad, wrench) = call.omega

\* a call of dynamics with unequal non-negative speeds on a vehicle whose
\* rotors have lever arms, giving a pitch torque
C3_UnequalCommand ==
    /\ call.op = "dynamics"
    /\ FullRankAllocation(quad)
    /\ \A i \in 1..4 : RootNonNeg(call.omega[i])
    /\ call.omega[1] # call.omega[2]
    /\ NetTorque(quad, call.omega)[2] # Zero

\* C4: without rotor speed and without drag, a vehicle of positive mass at
\* rest gets from dynamics the acceleration (0, 0, -9.81) and no other rate,
\* at any attitude; and every sample of a simulate run from rest has
\* z = z0 - 1/2 * 9.81 * t**2 with x, y, the angles and the body rates of x0
C4_FreeFall ==
    /\ ( /\ call.op = "dynamics"
         /\ call.outcome = "ok"
         /\ IsPos(quad.m)
         /\ call.omega = ZeroCommand
         /\ quad.Cd = Zeros33 /\ quad.Ctau = Zeros33
         /\ SubSeq(call.x, 4, 6) = Zeros3 /\ SubSeq(call.x, 10, 12) = Zeros3 )
       => call.dxdt = Zeros3 \o <<Zero, Zero, RNeg(Gravity)>> \o Zeros3 \o Zeros3
    /\ ( /\ sim.pc # "idle"
         /\ FreeOfDrag(quad, sim.f)
         /\ SubSeq(sim.ys[1], 4, 6) = Zeros3 /\ SubSeq(sim.ys[1], 10, 12) = Zeros3 )
       => \A k \in 1..Len(sim.ys) :
             LET x0 == sim.ys[1]
                 y == sim.ys[k]
                 fall == RMul(RMul(<<1, 2>>, Gravity), RMul(sim.ts[k], sim.ts[k]))
             IN  /\ y[3] = RSub(x0[3], fall)
                 /\ \A j \in {1, 2} \cup 7..12 : y[j] = x0[j]

\* a fall of three steps or more from a tilted attitude that simulate returned
C4_FallReturned ==
    /\ sim.pc = "returned"
    /\ FreeOfDrag(quad, sim.f)
    /\ Len(sim.ys) >= 4
    /\ sim.ys[1][7] # Zero
    /\ call.op = "dynamics" /\ call.outcome = "ok"

\* C5: a vehicle built from an empty mass list, or from masses whose total
\* is <= 0, ends in a ConfigurationError
C5_DegenerateMassRejected ==
    ( /\ quad.status # "none"
      /\ \/ Len(quad.masses_positions) = 0
         \/ ~IsPos(TotalMass(quad.masses_positions)) )
    => quad.status = "ConfigurationError"

\* C6: dynamics is never called on a vehicle whose inertia tensor I cannot
\* be inverted: such a vehicle is rejected when it is built
C6_SingularInertiaRejected ==
    call.op = "dynamics" => InvertibleInertia(quad)

\* C7: a call of dynamics with a negative rotor speed ends in a
\* NumericalError
C7_NegativeSpeedRejected ==
    ( /\ call.op = "dynamics"
      /\ \E i \in 1..4 : call.omega[i].sgn < 0 )
    => call.outcome = "NumericalError"

\* C8: a call of dynamics at a pitch next to +-90 degrees does not return a
\* derivative: it ends in an error
C8_GimbalLockRejected ==
    ( /\ call.op = "dynamics"
      /\ call.x[8] \in NearGimbal )
    => call.outcome # "ok"

\* C9: no exception leaves simulate
C9_SimulateNeverRaises ==
    sim.pc # "raised"

\* C10: for a mass list of positive total, the parallel-axis sum and the
\* inertia tensor I = sum + I_body are both equal to their transposes
C10_InertiaSymmetric ==
    ( /\ quad.status = "ok"
      /\ IsPos(quad.m) )
    => LET parallel_axis == InertiaSum(quad.masses_positions, quad.CoM)
       IN  /\ parallel_axis = Transpose(parallel_axis)
           /\ quad.I = Transpose(quad.I)

\* a vehicle of several masses off the axes: I has products of inertia
C10_ProductsOfInertia ==
    /\ quad.status = "ok"
    /\ IsPos(quad.m)
    /\ Len(quad.masses_positions) >= 2
    /\ InertiaSum(quad.masses_positions, quad.CoM)[1][2] # Zero

\* C11: a vehicle of positive total mass whose layout is symmetric about the
\* body origin (as many elements of mass m at r as at -r) has CoM = (0,0,0),
\* and its rotor positions relative to the CoM are the body-frame ones
C11_SymmetricLayoutCentred ==
    LET mp == quad.masses_positions
        Count(e) == Cardinality({j \in 1..Len(mp) : mp[j] = e})
        symmetric == \A i \in 1..Len(mp) :
                        Count(mp[i]) = Count(<<mp[i][1], VNeg(mp[i][2])>>)
    IN  ( /\ quad.status = "ok"
          /\ IsPos(quad.m)
          /\ symmetric )
        => /\ quad.CoM = Zeros3
           /\ quad.r_pos_rel = quad.r_pos

\* a symmetric layout of five elements, with pairs away from the origin
C11_SymmetricPairs ==
    LET mp == quad.masses_positions
        Count(e) == Cardinality({j \in 1..Len(mp) : mp[j] = e})
    IN  /\ quad.status = "ok"
        /\ IsPos(quad.m)
        /\ Len(mp) >= 5
        /\ \A i \in 1..Len(mp) : Count(mp[i]) = Count(<<mp[i][1], VNeg(mp[i][2])>>)
        /\ \E i \in 1..Len(mp) : mp[i][2] # Zeros3 /\ mp[i][2][3] # Zero
\* C12: no call of control or dynamics changes the controller (every field
\* keeps its constructor value), the vehicle built, or the state the
\* integrator handed in and the samples it has stored; so the command of a
\* control call is the one a fresh controller gives for the same arguments
C12_CallsArePure ==
    [][ /\ pid' = NewPID
        /\ quad.status # "none" => quad' = quad
        /\ sim.pc = "omega" => /\ sim'.te = sim.te /\ sim'.xe = sim.xe
                                /\ sim'.t = sim.t /\ sim'.x = sim.x
                                /\ sim'.ys = sim.ys
        /\ sim.pc = "dynamics" =>
              /\ call'.t = sim.te /\ call'.x = sim.xe
              /\ SubSeq(sim'.ys, 1, Len(sim.ys)) = sim.ys
        /\ call'.op = "control" =>
              call'.omega = control(NewPID, quad, call'.t, call'.x, call'.setpoint)
      ]_vars

\* a closed-loop run that returned, after two calls of control and of dynamics
C12_ClosedLoopReturned ==
    /\ sim.pc = "returned"
    /\ sim.f = "omega_func"
    /\ call.op = "dynamics"
    /\ Len(sim.ys) = 2
\* C13: in a closed-loop run every evaluation the integrator asks for is one
\* call of the controller at the evaluation's (t, x), followed at once by one
\* call of dynamics at the same (t, x) with the speeds that call returned
C13_ControlThenDynamics ==
    [][ /\ (sim.pc = "omega" /\ sim.f = "omega_func") =>
              /\ call'.op = "control"
              /\ call'.t = sim.te /\ call'.x = sim.xe
              /\ call'.setpoint = HoverSetpoint
              /\ sim'.pc = "dynamics"
              /\ sim'.omega = call'.omega
              /\ sim'.te = sim.te /\ sim'.xe = sim.xe
        /\ (sim.pc = "dynamics" /\ sim.f = "omega_func") =>
              /\ call.op = "control"
              /\ call.t = sim.te /\ call.x = sim.xe
              /\ call'.op = "dynamics"
              /\ call'.t = call.t /\ call'.x = call.x
              /\ call'.omega = call.omega
              /\ sim'.pc \in {"omega", "returned", "raised"}
      ]_vars

\* the second evaluation of a closed-loop step: the controller has been
\* called at the midpoint and dynamics is due
C13_MidpointEvaluation ==
    /\ sim.pc = "dynamics"
    /\ sim.f = "omega_func"
    /\ sim.stage = 2
    /\ call.op = "control"
    /\ call.t # Zero
    /\ call.x # sim.x
\* C14: the command of a control call is the command for every state and
\* setpoint that differ from the call's in x, y, v_x, v_y only
C14_HorizontalErrorIgnored ==
    call.op = "control" =>
        \A hx \in Horizontal, hs \in Horizontal :
            control(pid, quad, call.t, WithHorizontal(call.x, hx),
                    WithHorizontal(call.setpoint, hs)) = call.omega

\* a control call with a horizontal position and velocity error that
\* returned a positive speed
C14_HorizontalError ==
    /\ call.op = "control"
    /\ call.x[1] # call.setpoint[1]
    /\ call.x[5] # call.setpoint[5]
    /\ \E i \in 1..4 : call.omega[i].sgn > 0

==========================================================================
